---------------------------- MODULE Spec2Model ----------------------------
(***************************************************************************)
(* A model of StardewValleyModUpdater.py: main() loads mods.yaml, wipes    *)
(* the managed mods directory, installs the latest GitHub release of every *)
(* githubReleaseMods entry and the zip of every mirrorMods entry.          *)
(*                                                                         *)
(* Strings the code takes apart (mod names, asset names) are sequences of  *)
(* characters; the others are TLA+ strings.  The network is a function     *)
(* from the resource asked for to the response it gives, fixed for a whole *)
(* behaviour, so that a second run of main() meets the same responses.     *)
(***************************************************************************)
EXTENDS Integers, Sequences, FiniteSets, TLC

\* ------------------------------------------------------------ bounds
\* entries of the manifest, both mappings together
MaxEntries == 2
\* runs of main() in a row
MaxRuns == 2
\* assets of a release, in the specification of the asset selection
MaxAssets == 3
\* entries of a zip archive
MaxFiles == 2

\* ------------------------------------------------------------ strings
Foo == <<"F", "o", "o">>
Bar == <<"B", "a", "r">>
FooBar == <<"F", "o", "o", "B", "a", "r">>
Old == <<"O", "l", "d">>
Dot == <<".">>
DotZip == <<".", "z", "i", "p">>
DotTxt == <<".", "t", "x", "t">>
Version == <<".", "2", ".", "1", ".", "0">>

ModNames == {Foo, Bar}
URLs == {"u1", "u2"}
None == "None"

\* str.startswith
StartsWith(s, prefix) ==
    /\ Len(prefix) <= Len(s)
    /\ SubSeq(s, 1, Len(prefix)) = prefix

\* str.endswith
EndsWith(s, suffix) ==
    /\ Len(suffix) <= Len(s)
    /\ SubSeq(s, Len(s) - Len(suffix) + 1, Len(s)) = suffix

\* ------------------------------------------------------------ constants of the script
Keys == {"githubReleaseMods", "mirrorMods"}

\* "owner/repo" of a mod: the model gives every mod name one repository
RepoOf(m) == IF m = Foo THEN "owner/Foo" ELSE "owner/Bar"
Repos == {RepoOf(m) : m \in ModNames}

VARIABLES
    manifestFile,   \* mods.yaml on disk
    net,            \* the network: releases per repository, zips per URL
    fs,             \* the managed mods root (MODS_DIR)
    twin,           \* MODS_DIR of the same run started without a managed root
    fsStart,        \* MODS_DIR when the current run of main() started
    tree1,          \* MODS_DIR when the first run of main() ended
    run,            \* which run of main() this is
    pc,             \* where main() is
    idx,            \* position of the for loop main() is in
    config,         \* what loadConfig() returned
    detected,       \* completeModList, once printed
    log,            \* the lines log() printed, <<modName, str>>
    calls,          \* the calls of the two install functions, in order
    written,        \* the files the installs of the current run extracted
    exc             \* the exception that ended main(), or "none"

vars == <<manifestFile, net, fs, twin, fsStart, tree1, run, pc, idx, config,
          detected, log, calls, written, exc>>


\* ------------------------------------------------------------ the managed mods root
\* A tree is whether MODS_DIR exists and the files under it, each
\* <<directory, entry, content>>; a content is named after the URL whose zip
\* held it, or "old" for what was there before the first run.
AbsentTree == [exists |-> FALSE, files |-> {}]
EmptyTree == [exists |-> TRUE, files |-> {}]

\* shutil.rmtree(MODS_DIR)
RmTree(t) == AbsentTree

\* os.makedirs(MODS_DIR)
MakeDirs(t) == [t EXCEPT !.exists = TRUE]

\* a variant that deletes only the directories named after a mod
ResetTreeListed(t) ==
    [exists |-> TRUE, files |-> {f \in t.files : f[1] \notin ModNames}]

\* a variant that never deletes
ResetTreeKeep(t) == MakeDirs(t)

\* main(): "Clean out the Mods Directory"
ResetTree(t) == IF t.exists THEN MakeDirs(RmTree(t)) ELSE MakeDirs(t)

\* zipFile.extractall(os.path.join(MODS_DIR, modName)): every entry extracted
\* replaces the file of that name; nothing else under the directory is touched,
\* and an archive without entries creates nothing
ExtractInto(t, dir, entries, content) ==
    IF entries = {}
    THEN t
    ELSE [exists |-> TRUE,
          files |-> {f \in t.files : ~(f[1] = dir /\ f[2] \in entries)}
                    \cup {<<dir, e, content>> : e \in entries}]

DirFiles(t, dir) == {f \in t.files : f[1] = dir}

InitTrees ==
    { AbsentTree,
      EmptyTree,
      [exists |-> TRUE, files |-> {<<Foo, 1, "old">>, <<Old, 1, "old">>}] }

\* ------------------------------------------------------------ the network
\* What a downloaded file is: a zip whose entries are 1..n, or a body that is
\* no valid zip, of which extractall writes the entries 1..n before it fails.
Bodies ==
    {[valid |-> TRUE, entries |-> 1..n] : n \in 0..MaxFiles}
    \cup {[valid |-> FALSE, entries |-> 1..n] : n \in 0..(MaxFiles - 1)}

\* urlretrieve(zipUrl, downloadedZip): the file is written ("ok"), or
\* HTTPError is raised ("http"), or URLError ("urlerror")
NoBody == [valid |-> FALSE, entries |-> {}]
ZipResponses ==
    {[kind |-> "ok", body |-> b] : b \in Bodies}
    \cup {[kind |-> k, body |-> NoBody] : k \in {"http", "urlerror"}}

Asset(name, url) == [name |-> name, browser_download_url |-> url]

\* urlopen(releaseUrl) and json.loads: a release with its assets ("ok"),
\* HTTPError with a status ("http"), URLError ("urlerror"), a body that is
\* not JSON ("badbody"), or JSON without "assets" ("noassets")
Release(assets) == [kind |-> "ok", code |-> 200, assets |-> assets]
ReleaseFailures ==
    { [kind |-> "http", code |-> 404, assets |-> <<>>],
      [kind |-> "http", code |-> 503, assets |-> <<>>],
      [kind |-> "urlerror", code |-> 0, assets |-> <<>>],
      [kind |-> "badbody", code |-> 200, assets |-> <<>>],
      [kind |-> "noassets", code |-> 200, assets |-> <<>>] }

\* the asset lists of the repository of each mod, in the specification of
\* main()
RunAssetLists ==
    [m \in ModNames |->
        { <<>>,
          <<Asset(m \o DotZip, "u1")>>,
          <<Asset(m \o DotZip, "u1"), Asset(m \o Version \o DotZip, "u2")>>,
          <<Asset(m \o DotTxt, "u2")>> }]

\* the asset lists in the specification of the asset selection
AssetNames ==
    {Foo \o DotZip, Foo \o Version \o DotZip, Bar \o DotZip, Foo \o DotTxt,
     FooBar \o DotZip}
AssetPool == {Asset(n, u) : n \in AssetNames, u \in URLs}
SeqsUpTo(S, n) == UNION {[1..k -> S] : k \in 0..n}
SelectAssetLists == SeqsUpTo(AssetPool, MaxAssets)


\* ------------------------------------------------------------ the manifest
\* mods.yaml: absent, not YAML ("malformed"), YAML that is no mapping
\* ("scalar"), or a mapping with some of the two keys, each a list of
\* <<mod name, source>> in the order of the document
Entry(name, source) == [name |-> name, source |-> source]
Document(kind, keys, gh, mi) ==
    [kind |-> kind, keys |-> keys, githubReleaseMods |-> gh, mirrorMods |-> mi]
Unloaded == Document("unloaded", {}, <<>>, <<>>)

\* the sequences without repetition over S, of length n
Arrangements(S, n) ==
    {q \in [1..n -> S] : \A i, j \in 1..n : i # j => q[i] # q[j]}

GithubMappings(n) ==
    {[i \in 1..n |-> Entry(q[i], RepoOf(q[i]))] : q \in Arrangements(ModNames, n)}
MirrorMappings(n) ==
    UNION {{[i \in 1..n |-> Entry(q[i], u[i])] : u \in [1..n -> URLs]}
           : q \in Arrangements(ModNames, n)}

GoodManifests ==
    UNION {UNION {{Document("mapping", Keys, gh, mi)
                   : gh \in GithubMappings(g), mi \in MirrorMappings(k - g)}
                  : g \in 0..k}
           : k \in 0..MaxEntries}

BadManifests ==
    { Document("absent", {}, <<>>, <<>>),
      Document("malformed", {}, <<>>, <<>>),
      Document("scalar", {}, <<>>, <<>>),
      Document("mapping", {"mirrorMods"}, <<>>, <<Entry(Foo, "u1")>>),
      Document("mapping", {"githubReleaseMods"},
               <<Entry(Foo, RepoOf(Foo))>>, <<>>) }

Names(mapping) == {mapping[i].name : i \in 1..Len(mapping)}

\* ------------------------------------------------------------ asset selection
\* isExactAssetName or isAssetNameWithVersion
IsCandidate(modName, name) ==
    LET isExactAssetName == name = modName \o DotZip
        isAssetNameWithVersion ==
            StartsWith(name, modName \o Dot) /\ EndsWith(name, DotZip)
    IN  isExactAssetName \/ isAssetNameWithVersion

\* the loop over releases["assets"], from asset i on: every match overwrites
\* assetUrl
RECURSIVE ScanAssets(_, _, _, _)
ScanAssets(modName, assets, i, assetUrl) ==
    IF i > Len(assets)
    THEN assetUrl
    ELSE ScanAssets(modName, assets, i + 1,
                    IF IsCandidate(modName, assets[i].name)
                    THEN assets[i].browser_download_url
                    ELSE assetUrl)

\* a variant that keeps the first match
SelectFirstAsset(modName, assets) ==
    LET hits == {i \in 1..Len(assets) : IsCandidate(modName, assets[i].name)}
    IN  IF hits = {}
        THEN None
        ELSE assets[CHOOSE i \in hits : \A j \in hits : i <= j].browser_download_url

SelectAsset(modName, assets) == ScanAssets(modName, assets, 1, None)


\* ------------------------------------------------------------ the install functions
\* The functions act on a process: the two trees, the output, the calls made
\* so far, the files extracted, and the exception that is propagating.
Process == [fs |-> fs, twin |-> twin, log |-> log, calls |-> calls,
            written |-> written, exc |-> exc]

\* log(modName, str)
Log(p, modName, str) == [p EXCEPT !.log = Append(@, <<modName, str>>)]

RECURSIVE LogAll(_, _, _)
LogAll(p, modName, lines) ==
    IF lines = <<>>
    THEN p
    ELSE LogAll(Log(p, modName, Head(lines)), modName, Tail(lines))

Raise(p, exception) == [p EXCEPT !.exc = exception]

\* a call of fn(mod, arg) by main() or by the resolver, and how it ended
Called(p, fn, mod, arg, by, outcome) ==
    [p EXCEPT !.calls = Append(@, [fn |-> fn, mod |-> mod, arg |-> arg,
                                   by |-> by, outcome |-> outcome])]

\* what urlretrieve leaves at downloadedZip
Downloaded(response) ==
    IF response.kind = "ok"
    THEN [present |-> TRUE, valid |-> response.body.valid,
          entries |-> response.body.entries]
    ELSE [present |-> FALSE, valid |-> FALSE, entries |-> {}]

\* zipfile.ZipFile(downloadedZip) and extractall: whether they raised, and the
\* entries written before
ExtractAll(file) ==
    [ok |-> file.present /\ file.valid,
     entries |-> IF file.present THEN file.entries ELSE {}]

\* a variant whose except branch does not return
ExtractLinesFallThrough(ok) ==
    IF ok
    THEN <<"Installation complete.">>
    ELSE <<"Unable to extract mod zip", "Installation complete.">>

\* what installFromZipUrl logs after the extraction
ExtractLines(ok) ==
    IF ok THEN <<"Installation complete.">> ELSE <<"Unable to extract mod zip">>

installFromZipUrl(p, modName, zipUrl, by) ==
    LET response == net.zips[zipUrl]
        p1 == Log(p, modName, "Downloading mod...")
    IN  IF response.kind = "urlerror"
        THEN Raise(Called(p1, "installFromZipUrl", modName, zipUrl, by, "raised"),
                   "URLError")
        ELSE LET p2 == IF response.kind = "http"
                       THEN Log(p1, modName, "Unable to download mod zip")
                       ELSE p1
                 ex == ExtractAll(Downloaded(response))
                 p3 == [p2 EXCEPT
                          !.fs = ExtractInto(@, modName, ex.entries, zipUrl),
                          !.twin = ExtractInto(@, modName, ex.entries, zipUrl),
                          !.written = @ \cup {<<modName, e, zipUrl>> : e \in ex.entries}]
                 p4 == LogAll(p3, modName, ExtractLines(ex.ok))
             IN  Called(p4, "installFromZipUrl", modName, zipUrl, by,
                        IF ex.ok THEN "extracted" ELSE "extract failed")

\* a variant that tells no status apart
HttpErrorLineGeneric(code) == "Unable to reach GitHub"

\* what installLatestGitHubRelease logs for an HTTPError
HttpErrorLine(code) ==
    IF code = 404
    THEN "Repo is no longer hosting releases."
    ELSE "Unable to reach GitHub"

installLatestGitHubRelease(p, modName, modRepo) ==
    LET releases == net.releases[modRepo]
        fn == "installLatestGitHubRelease"
    IN  CASE releases.kind = "http" ->
               Called(Log(p, modName, HttpErrorLine(releases.code)),
                      fn, modName, modRepo, "main", "http error")
          [] releases.kind = "urlerror" ->
               Raise(Called(p, fn, modName, modRepo, "main", "raised"), "URLError")
          [] releases.kind = "badbody" ->
               Raise(Called(p, fn, modName, modRepo, "main", "raised"), "ValueError")
          [] releases.kind = "noassets" ->
               Raise(Called(p, fn, modName, modRepo, "main", "raised"), "KeyError")
          [] OTHER ->
               LET assetUrl == SelectAsset(modName, releases.assets)
               IN  IF assetUrl = None
                   THEN Called(Log(p, modName,
                                   "Assets do not contain expected zip file."),
                               fn, modName, modRepo, "main", "no asset")
                   ELSE installFromZipUrl(
                            Called(p, fn, modName, modRepo, "main", "asset found"),
                            modName, assetUrl, "resolver")


\* ------------------------------------------------------------ initial states
\* The networks a manifest can meet: every repository and URL the run can ask
\* for answers with any response; the others, never asked, answer one way.
ReleasesOf(lists) == ReleaseFailures \cup {Release(l) : l \in lists}
UnaskedRelease == [kind |-> "http", code |-> 404, assets |-> <<>>]
UnaskedZip == [kind |-> "http", body |-> NoBody]

AskedRepos(doc) ==
    {doc.githubReleaseMods[i].source : i \in 1..Len(doc.githubReleaseMods)}

AskedURLs(doc, releases) ==
    {doc.mirrorMods[i].source : i \in 1..Len(doc.mirrorMods)}
    \cup UNION {{releases[r].assets[i].browser_download_url
                 : i \in 1..Len(releases[r].assets)}
                : r \in AskedRepos(doc)}

ReleaseFunctions(doc, lists) ==
    LET For(m) == IF RepoOf(m) \in AskedRepos(doc)
                  THEN ReleasesOf(lists[m])
                  ELSE {UnaskedRelease}
    IN  {[r \in Repos |-> IF r = RepoOf(Foo) THEN a ELSE b]
         : a \in For(Foo), b \in For(Bar)}

ZipFunctions(doc, releases, zipResponses) ==
    LET For(u) == IF u \in AskedURLs(doc, releases)
                  THEN zipResponses
                  ELSE {UnaskedZip}
    IN  {[u \in URLs |-> IF u = "u1" THEN a ELSE b]
         : a \in For("u1"), b \in For("u2")}

Networks(doc, lists, zipResponses) ==
    UNION {{[releases |-> rf, zips |-> zf]
            : zf \in ZipFunctions(doc, rf, zipResponses)}
           : rf \in ReleaseFunctions(doc, lists)}

NothingDetected == [printed |-> FALSE, mods |-> <<>>]

Start(manifests, lists, zipResponses, trees) ==
    /\ manifestFile \in manifests
    /\ net \in Networks(manifestFile, lists, zipResponses)
    /\ fs \in trees
    /\ twin = AbsentTree
    /\ fsStart = fs
    /\ tree1 = AbsentTree
    /\ run = 1
    /\ pc = "load"
    /\ idx = 1
    /\ config = Unloaded
    /\ detected = NothingDetected
    /\ log = <<>>
    /\ calls = <<>>
    /\ written = {}
    /\ exc = "none"

Init ==
    Start(GoodManifests \cup BadManifests, RunAssetLists, ZipResponses, InitTrees)

\* ------------------------------------------------------------ main()
\* a variant that asks for the first key only
RequiredKeysFirstOnly == {"githubReleaseMods"}

\* the keys main() reads to build completeModList
RequiredKeys == {"githubReleaseMods", "mirrorMods"}

\* a variant that walks a mapping backwards
EntryAtReversed(mapping, i) == mapping[Len(mapping) + 1 - i]

\* the i-th entry a for loop over a mapping visits
EntryAt(mapping, i) == mapping[i]

\* config = loadConfig()
LoadConfig ==
    /\ pc = "load" /\ exc = "none"
    /\ IF manifestFile.kind = "absent"
       THEN exc' = "FileNotFoundError" /\ UNCHANGED <<config, pc>>
       ELSE IF manifestFile.kind = "malformed"
            THEN exc' = "YAMLError" /\ UNCHANGED <<config, pc>>
            ELSE config' = manifestFile /\ pc' = "list" /\ UNCHANGED exc
    /\ UNCHANGED <<manifestFile, net, fs, twin, fsStart, tree1, run, idx,
                   detected, log, calls, written>>

\* completeModList and the line that prints it
BuildModList ==
    /\ pc = "list" /\ exc = "none"
    /\ IF config.kind # "mapping"
       THEN exc' = "TypeError" /\ UNCHANGED <<detected, pc>>
       ELSE IF RequiredKeys \ config.keys # {}
            THEN exc' = "KeyError" /\ UNCHANGED <<detected, pc>>
            ELSE /\ detected' =
                      [printed |-> TRUE,
                       mods |-> [i \in 1..Len(config.githubReleaseMods)
                                   |-> config.githubReleaseMods[i].name]
                                \o [i \in 1..Len(config.mirrorMods)
                                      |-> config.mirrorMods[i].name]]
                 /\ pc' = "reset"
                 /\ UNCHANGED exc
    /\ UNCHANGED <<manifestFile, net, fs, twin, fsStart, tree1, run, idx,
                   config, log, calls, written>>

\* "Clean out the Mods Directory"
ResetRoot ==
    /\ pc = "reset" /\ exc = "none"
    /\ fs' = ResetTree(fs)
    /\ twin' = ResetTree(twin)
    /\ pc' = "github"
    /\ idx' = 1
    /\ UNCHANGED <<manifestFile, net, fsStart, tree1, run, config, detected,
                   log, calls, written, exc>>

Resume(p) ==
    /\ fs' = p.fs
    /\ twin' = p.twin
    /\ log' = p.log
    /\ calls' = p.calls
    /\ written' = p.written
    /\ exc' = p.exc
    /\ idx' = IF p.exc = "none" THEN idx + 1 ELSE idx

\* the loop over config["githubReleaseMods"]: one iteration, or its end
GithubPass ==
    /\ pc = "github" /\ exc = "none"
    /\ IF "githubReleaseMods" \notin config.keys
       THEN /\ exc' = "KeyError"
            /\ UNCHANGED <<fs, twin, log, calls, written, idx, pc>>
       ELSE IF idx > Len(config.githubReleaseMods)
            THEN /\ pc' = "mirror"
                 /\ idx' = 1
                 /\ UNCHANGED <<fs, twin, log, calls, written, exc>>
            ELSE LET e == EntryAt(config.githubReleaseMods, idx)
                 IN  /\ Resume(installLatestGitHubRelease(Process, e.name, e.source))
                     /\ UNCHANGED pc
    /\ UNCHANGED <<manifestFile, net, fsStart, tree1, run, config, detected>>

\* the loop over config["mirrorMods"]: one iteration, or its end and main()'s
MirrorPass ==
    /\ pc = "mirror" /\ exc = "none"
    /\ IF "mirrorMods" \notin config.keys
       THEN /\ exc' = "KeyError"
            /\ UNCHANGED <<fs, twin, log, calls, written, idx, pc>>
       ELSE IF idx > Len(config.mirrorMods)
            THEN /\ pc' = "done"
                 /\ UNCHANGED <<fs, twin, log, calls, written, exc, idx>>
            ELSE LET e == EntryAt(config.mirrorMods, idx)
                 IN  /\ Resume(installFromZipUrl(Process, e.name, e.source, "main"))
                     /\ UNCHANGED pc
    /\ UNCHANGED <<manifestFile, net, fsStart, tree1, run, config, detected>>

\* main() returned, or an exception ended it
RunEnded == pc = "done" \/ exc # "none"

\* the script is run again, with the manifest and the network as they were
RunAgain ==
    /\ RunEnded /\ run < MaxRuns
    /\ run' = run + 1
    /\ tree1' = IF run = 1 THEN fs ELSE tree1
    /\ fsStart' = fs
    /\ twin' = AbsentTree
    /\ pc' = "load"
    /\ idx' = 1
    /\ config' = Unloaded
    /\ detected' = NothingDetected
    /\ log' = <<>>
    /\ calls' = <<>>
    /\ written' = {}
    /\ exc' = "none"
    /\ UNCHANGED <<manifestFile, net, fs>>

Next ==
    \/ LoadConfig
    \/ BuildModList
    \/ ResetRoot
    \/ GithubPass
    \/ MirrorPass
    \/ RunAgain

Spec == Init /\ [][Next]_vars


\* The asset selection on its own: one githubReleaseMods entry whose release
\* lists any assets, every zip a valid archive.
SelectManifests ==
    {Document("mapping", Keys, <<Entry(m, RepoOf(m))>>, <<Entry(Bar, "u1")>>)
     : m \in ModNames}
AnyAssetList == [m \in ModNames |-> SelectAssetLists]
ValidZips == {[kind |-> "ok", body |-> [valid |-> TRUE, entries |-> 1..MaxFiles]]}

InitSelect == Start(SelectManifests, AnyAssetList, ValidZips, {AbsentTree})

SpecSelect == InitSelect /\ [][Next]_vars

\* ------------------------------------------------------------ what the claims speak of
GithubMods == manifestFile.githubReleaseMods
MirrorMods == manifestFile.mirrorMods

\* main() got past the reset of the managed mods root
PastReset == pc \in {"github", "mirror", "done"}

\* the i-th githubReleaseMods entry has been attempted
GithubAttempted(i) ==
    \/ pc = "github" /\ (i < idx \/ (i = idx /\ exc # "none"))
    \/ pc \in {"mirror", "done"}

Logged(m, str) == \E i \in 1..Len(log) : log[i] = <<m, str>>

FailureLines ==
    {"Repo is no longer hosting releases.", "Unable to reach GitHub",
     "Assets do not contain expected zip file.", "Unable to download mod zip",
     "Unable to extract mod zip"}

\* the calls of installFromZipUrl for mod m made by `by`
InstallCalls(m, by) ==
    {j \in 1..Len(calls) : /\ calls[j].fn = "installFromZipUrl"
                           /\ calls[j].mod = m
                           /\ calls[j].by = by}

Largest(S) == CHOOSE i \in S : \A j \in S : j <= i

\* ------------------------------------------------------------ C1
\* C1: a network failure while an entry is processed (an HTTP status or a
\* transport error) is logged and swallowed inside the install functions and
\* never reaches main(). The code catches HTTPError only: URLError, which
\* urlopen and urlretrieve raise for an unreachable host, ends main().
C1_NetworkFailuresAreSwallowed == exc # "URLError"

\* ------------------------------------------------------------ C2
\* C2: when main() completes, every mod of the manifest has a populated
\* installation directory or a failure line in the log.
C2_NoSilentOmission ==
    pc = "done" =>
        \A m \in Names(GithubMods) \cup Names(MirrorMods) :
            \/ DirFiles(fs, m) # {}
            \/ \E str \in FailureLines : Logged(m, str)

\* ------------------------------------------------------------ C3
\* the candidates as the claim words them: the name is "<modName>.zip", or it
\* has "<modName>." at its start and ".zip" at its end
NamedLikeMod(m, name) ==
    \/ name = m \o DotZip
    \/ /\ \E k \in 0..Len(name) : SubSeq(name, 1, k) = m \o Dot
       /\ \E k \in 1..(Len(name) + 1) : SubSeq(name, k, Len(name)) = DotZip

\* C3: when a release lists candidates, installFromZipUrl is called exactly
\* once by the resolver, with the browser_download_url of the last candidate
\* in listing order; when it lists none, "Assets do not contain expected zip
\* file." is logged and installFromZipUrl is not called.
C3_AssetSelection ==
    \A i \in 1..Len(GithubMods) :
        LET m == GithubMods[i].name
            release == net.releases[GithubMods[i].source]
            assets == release.assets
            candidates == {k \in 1..Len(assets) : NamedLikeMod(m, assets[k].name)}
        IN  (GithubAttempted(i) /\ release.kind = "ok") =>
                IF candidates # {}
                THEN /\ Cardinality(InstallCalls(m, "resolver")) = 1
                     /\ \A j \in InstallCalls(m, "resolver") :
                            calls[j].arg =
                                assets[Largest(candidates)].browser_download_url
                     /\ ~Logged(m, "Assets do not contain expected zip file.")
                ELSE /\ InstallCalls(m, "resolver") = {}
                     /\ Logged(m, "Assets do not contain expected zip file.")

\* the example of the claim: ["Foo.zip", "Foo.2.1.0.zip", "Bar.zip"] and "Foo"
\* install the second asset
C3_Witness ==
    /\ GithubMods = <<Entry(Foo, RepoOf(Foo))>>
    /\ net.releases[RepoOf(Foo)].assets =
           <<Asset(Foo \o DotZip, "u1"), Asset(Foo \o Version \o DotZip, "u2"),
             Asset(Bar \o DotZip, "u1")>>
    /\ \E j \in InstallCalls(Foo, "resolver") : calls[j].arg = "u2"

\* ------------------------------------------------------------ C4
\* C4: when the first install call begins the managed mods root exists and is
\* empty, and from the reset on every file under it was extracted by an
\* install of this run.
C4_ResetBeforeInstall ==
    PastReset =>
        /\ fs.exists
        /\ (calls = <<>> => fs = EmptyTree)
        /\ fs.files \subseteq written

\* the root held files before the run, and the first install is about to begin
C4_Witness ==
    /\ fsStart.files # {}
    /\ pc = "github" /\ idx = 1 /\ calls = <<>>
    /\ Len(config.githubReleaseMods) >= 1


\* ------------------------------------------------------------ C5
\* the githubReleaseMods entries attempted so far whose release query got 404
NotFoundEntries ==
    {i \in 1..Len(GithubMods) :
        /\ GithubAttempted(i)
        /\ net.releases[GithubMods[i].source].kind = "http"
        /\ net.releases[GithubMods[i].source].code = 404}

NotFoundIsReported(m) ==
    /\ Logged(m, "Repo is no longer hosting releases.")
    /\ ~Logged(m, "Unable to reach GitHub")
    /\ InstallCalls(m, "resolver") = {}

\* C5 as claimed: a release query answered 404 logs "Repo is no longer hosting
\* releases.", not "Unable to reach GitHub", the resolver never calls
\* installFromZipUrl for the mod, and at the end of the run no installation
\* directory exists for the mod.
C5_NotFoundLeavesNoDirectory ==
    \A i \in NotFoundEntries :
        /\ NotFoundIsReported(GithubMods[i].name)
        /\ pc = "done" => DirFiles(fs, GithubMods[i].name) = {}

\* C5 as amended: the same report, and the only files under the mod's
\* directory are those main() installed for a mirrorMods entry of that name;
\* a mod that is no mirrorMods entry has no directory.
C5_NotFoundInstallsNothing ==
    \A i \in NotFoundEntries :
        LET m == GithubMods[i].name
        IN  /\ NotFoundIsReported(m)
            /\ \A f \in DirFiles(fs, m) :
                   \E j \in InstallCalls(m, "main") : calls[j].arg = f[3]
            /\ m \notin Names(MirrorMods) => DirFiles(fs, m) = {}

\* a 404 for a mod that is a mirrorMods entry too, whose zip was installed
C5_Witness ==
    /\ pc = "done"
    /\ \E i \in NotFoundEntries :
           /\ GithubMods[i].name \in Names(MirrorMods)
           /\ DirFiles(fs, GithubMods[i].name) # {}

\* ------------------------------------------------------------ C6
\* the calls main() made, each <<function, modName, source>>
CallsByMain ==
    LET ByMain(c) == c.by = "main"
        top == SelectSeq(calls, ByMain)
    IN  [i \in 1..Len(top) |-> <<top[i].fn, top[i].mod, top[i].arg>>]

\* the calls of a whole run, in manifest order
CallsOfTheManifest ==
    [i \in 1..Len(GithubMods) |->
        <<"installLatestGitHubRelease", GithubMods[i].name, GithubMods[i].source>>]
    \o [i \in 1..Len(MirrorMods) |->
        <<"installFromZipUrl", MirrorMods[i].name, MirrorMods[i].source>>]

\* C6: the calls main() has made are at every moment the first calls of the
\* manifest's order (githubReleaseMods in mapping order, then mirrorMods in
\* mapping order), each entry once; the mirror pass begins after every
\* githubReleaseMods entry was attempted, and a completed run made them all.
C6_FixedProcessingOrder ==
    /\ Len(CallsByMain) <= Len(CallsOfTheManifest)
    /\ CallsByMain = SubSeq(CallsOfTheManifest, 1, Len(CallsByMain))
    /\ pc = "mirror" => Len(CallsByMain) >= Len(GithubMods)
    /\ pc = "done" => CallsByMain = CallsOfTheManifest

\* a completed run over a manifest with two entries
C6_Witness ==
    /\ pc = "done"
    /\ Len(GithubMods) + Len(MirrorMods) >= 2
    /\ Len(CallsByMain) >= 2

\* ------------------------------------------------------------ C7
\* C7: a run that got to the reset ends (returning, or by an exception) with
\* the tree that the same run ends with when it starts without a managed mods
\* root, whatever the root held before; and a second run in a row ends with
\* the tree the first one ended with.
C7_RunIsIdempotent ==
    RunEnded =>
        /\ PastReset => fs = twin
        /\ run >= 2 => fs = tree1

\* a second run, started on the mods the first one installed, has completed
C7_Witness ==
    /\ pc = "done" /\ run = 2
    /\ fsStart.files # {}
    /\ fs.files # {}

\* ------------------------------------------------------------ C8
\* the calls of installFromZipUrl that went on to extract
Extractions ==
    LET Extracting(c) == c.fn = "installFromZipUrl" /\ c.outcome # "raised"
    IN  SelectSeq(calls, Extracting)

\* the lines that report an extraction
ExtractionReports ==
    LET Reporting(l) ==
            l[2] \in {"Installation complete.", "Unable to extract mod zip"}
    IN  SelectSeq(log, Reporting)

\* whether the archive behind a URL extracts: a downloaded, valid zip
Extracts(url) == net.zips[url].kind = "ok" /\ net.zips[url].body.valid

\* C8: every call of installFromZipUrl that reaches the extraction logs one
\* report: "Installation complete." when the downloaded archive extracted,
\* "Unable to extract mod zip" and nothing more when it did not (a corrupt
\* archive, or no file after an HTTP error); no other completion is logged.
C8_CompletionOnlyAfterExtraction ==
    /\ Len(ExtractionReports) = Len(Extractions)
    /\ \A i \in 1..Len(Extractions) :
           LET c == Extractions[i]
           IN  ExtractionReports[i] =
                   <<c.mod, IF Extracts(c.arg)
                            THEN "Installation complete."
                            ELSE "Unable to extract mod zip">>

\* a corrupt archive left files behind and was reported as a failure
C8_Witness ==
    \E i \in 1..Len(calls) :
        /\ calls[i].fn = "installFromZipUrl"
        /\ net.zips[calls[i].arg].kind = "ok"
        /\ ~net.zips[calls[i].arg].body.valid
        /\ DirFiles(fs, calls[i].mod) # {}
        /\ Logged(calls[i].mod, "Unable to extract mod zip")

\* ------------------------------------------------------------ C9
\* C9: when a name is in both mappings and both installs succeed, the mod's
\* directory ends up holding exactly the entries of the mirror archive (stated
\* here for a mirror archive that has entries).
C9_LastWriterWins ==
    pc = "done" =>
        \A i \in 1..Len(MirrorMods) :
            LET m == MirrorMods[i].name
                url == MirrorMods[i].source
            IN  ( /\ m \in Names(GithubMods)
                  /\ net.zips[url].body.entries # {}
                  /\ \E j \in InstallCalls(m, "resolver") :
                         calls[j].outcome = "extracted"
                  /\ \E j \in InstallCalls(m, "main") :
                         calls[j].outcome = "extracted" )
                => DirFiles(fs, m) =
                       {<<m, e, url>> : e \in net.zips[url].body.entries}

\* ------------------------------------------------------------ C10
ManifestIsBroken ==
    \/ manifestFile.kind # "mapping"
    \/ ~(Keys \subseteq manifestFile.keys)

ManifestErrors == {"FileNotFoundError", "YAMLError", "TypeError", "KeyError"}

\* C10: with the manifest absent, not structured data or lacking a key,
\* main() never gets to the reset: it goes on until an uncaught error ends
\* it, with the managed mods root as it was when the run started, no call of
\* an install function made and nothing logged.
C10_ManifestErrorsComeFirst ==
    ManifestIsBroken =>
        /\ pc \in {"load", "list"}
        /\ \/ exc \in ManifestErrors
           \/ exc = "none" /\ ENABLED (LoadConfig \/ BuildModList)
        /\ fs = fsStart
        /\ calls = <<>>
        /\ log = <<>>

\* a manifest without a key ended main(), over a root that held files
C10_Witness ==
    /\ ManifestIsBroken
    /\ exc = "KeyError"
    /\ fsStart.files # {}
    /\ fs = fsStart

=============================================================================
